---- MODULE Spec2Model ----
(***************************************************************************)
(* Model of the stat_fs NIF of native/diskspace/src/lib.rs.                *)
(*                                                                         *)
(* One behaviour is one invocation of stat_fs on one build target.  The    *)
(* operating system, the term decoder and the map constructor are the      *)
(* environment: every outcome their contract allows for the arguments the  *)
(* code passes is chosen with \E.                                          *)
(* u64 values are scaled down to 0..MaxU64 so that overflow and saturation *)
(* are reachable; arithmetic keeps the width (modulo MaxU64 + 1).          *)
(***************************************************************************)
EXTENDS Integers, Sequences, FiniteSets, TLC

VARIABLES
    target,      \* cfg the crate was compiled for: "linux", "unix" (non-Linux), "windows"
    path_term,   \* the Term handed to stat_fs: [kind, bytes]
    pc,          \* position inside stat_fs
    path_bytes,  \* Vec<u8> decoded from path_term
    wpath,       \* windows: the wide string behind PCWSTR (without its terminator)
    entry,       \* what the directory check found: "unknown", "dir", "file", "error"
    os_stat,     \* what the statistics syscall reported: {} or {record}
    os_err,      \* the OS error code of the OS call that failed: {} or {code}
    result,      \* what stat_fs returned: [tag, reason, detail, map]
    calls,       \* OS calls made so far, in order: [api, path]
    trace,       \* stages of stat_fs run so far, in order
    heap_log     \* windows: events on the FormatMessageW buffer, in order

vars == <<target, path_term, pc, path_bytes, wpath, entry, os_stat, os_err, result,
          calls, trace, heap_log>>

----------------------------------------------------------------------------
(* Bounds *)

\* Longest tail of an input path (after an optional \\ or \\?\ prefix).
MaxTail == 2

\* Scaled-down u64::MAX: the u64 fields range over 0..MaxU64.
MaxU64 == 3

----------------------------------------------------------------------------
(* Bytes and paths *)

BS == "\\"
QM == "?"
NUL == "NUL"    \* the byte 0x00
XFF == "xFF"    \* a byte that is not valid UTF-8

Alphabet == {BS, QM, "C", ":", NUL, XFF}

LongPrefix == <<BS, BS, QM, BS>>
UncPrefix == <<BS, BS>>

SeqsUpTo(n) == UNION {[1..k -> Alphabet] : k \in 0..n}

Paths == {p \o t : p \in {<<>>, UncPrefix, LongPrefix}, t \in SeqsUpTo(MaxTail)}

Has(s, b) == \E i \in 1..Len(s) : s[i] = b

\* str::starts_with
StartsWith(s, p) == Len(s) >= Len(p) /\ SubSeq(s, 1, Len(p)) = p

U64 == 0..MaxU64
Word == MaxU64 + 1

----------------------------------------------------------------------------
(* Results *)

NoResult == [tag |-> "none", reason |-> "none", detail |-> {}, map |-> {}]

\* make_error_tuple: {error, Reason}
make_error_tuple(reason) ==
    [tag |-> "error", reason |-> reason, detail |-> {}, map |-> {}]

\* make_error_tuple3: {error, Reason, Detail}
make_error_tuple3(reason, detail) ==
    [tag |-> "error", reason |-> reason, detail |-> {detail}, map |-> {}]

\* Err(rustler::Error::BadArg) leaving the NIF through `?`: the runtime raises
\* badarg in the caller, no term is returned.
RaiseBadArg == [tag |-> "raise", reason |-> "badarg", detail |-> {}, map |-> {}]

\* What a chain of map_put calls on the map map_new returned can yield: TRUE is
\* Ok for every call.  map_put answers Err only for a receiver that is not a
\* map, so the early return of its `?` is never taken.
MapPutOutcomes == {TRUE}

\* An arithmetic-overflow panic unwinding out of the NIF body.
Panicked == [tag |-> "panic", reason |-> "overflow", detail |-> {}, map |-> {}]

\* The {ok, Map} tuple of a success; map_ok is whether all four map_put calls
\* returned Ok.
make_ok_tuple(avail, free, total, used, map_ok) ==
    IF map_ok
    THEN [tag |-> "ok", reason |-> "none", detail |-> {},
          map |-> {[available |-> avail, free |-> free, total |-> total, used |-> used]}]
    ELSE RaiseBadArg

\* io::Error::to_string for the OS errors the model draws from.
StrError(code) ==
    CASE code = 2 -> "No such file or directory (os error 2)"
      [] code = 5 -> "Input/output error (os error 5)"
      [] code = 13 -> "Permission denied (os error 13)"
      [] OTHER -> "Unknown error"

\* std::io::Error: raw_os_error() is {code} or {} (None).
OsError(code) == [code |-> {code}, msg |-> StrError(code)]
NulError == [code |-> {}, msg |-> "file name contained an unexpected NUL byte"]

\* Mutant of RawOsErrorOr0: the code of the error is dropped.
RawOsErrorDropped(err) == 0

\* err.raw_os_error().unwrap_or(0)
RawOsErrorOr0(err) == IF err.code = {} THEN 0 ELSE CHOOSE c \in err.code : TRUE

\* make_errno_error_tuple; map_ok is whether both map_put calls returned Ok.
make_errno_error_tuple(reason, err, map_ok) ==
    IF map_ok
    THEN make_error_tuple3(reason, [errno |-> RawOsErrorOr0(err), errstr |-> err.msg])
    ELSE RaiseBadArg

----------------------------------------------------------------------------
(* Term decoding *)

TermKinds == {"binary", "string", "other"}

\* path_term.decode::<Binary>(): {bytes} on Ok, {} on Err.
DecodeBinary(term) == IF term.kind = "binary" THEN {term.bytes} ELSE {}

\* path_term.decode::<String>(): {bytes} on Ok, {} on Err.
DecodeString(term) == IF term.kind = "string" THEN {term.bytes} ELSE {}

\* The match of lines 164-174: the decoded bytes, {} when both decoders fail.
DecodePath(term) ==
    IF DecodeBinary(term) # {} THEN DecodeBinary(term) ELSE DecodeString(term)

\* Mutant of IsEmpty: the emptiness check is left out.
IsEmptyNever(bytes) == FALSE

\* path_bytes.is_empty()
IsEmpty(bytes) == Len(bytes) = 0

Terms ==
    {[kind |-> "binary", bytes |-> b] : b \in Paths}
    \cup {[kind |-> "string", bytes |-> b] : b \in {q \in Paths : ~Has(q, XFF)}}
    \cup {[kind |-> "other", bytes |-> <<>>]}

Targets == {"linux", "unix", "windows"}

Init ==
    /\ target \in Targets
    /\ path_term \in Terms
    /\ pc = "decode"
    /\ path_bytes = <<>>
    /\ wpath = <<>>
    /\ entry = "unknown"
    /\ os_stat = {}
    /\ os_err = {}
    /\ result = NoResult
    /\ calls = <<>>
    /\ trace = <<>>
    /\ heap_log = <<>>

\* Return from stat_fs with value r.
Return(r) ==
    /\ result' = r
    /\ pc' = "done"

\* Lines 164-177: decode the term, reject an undecodable or empty path.
Decode ==
    /\ pc = "decode"
    /\ trace' = Append(trace, "decode")
    /\ IF DecodePath(path_term) = {}
       THEN /\ Return(make_error_tuple("invalid_path"))
            /\ UNCHANGED path_bytes
       ELSE LET bytes == CHOOSE b \in DecodePath(path_term) : TRUE IN
            /\ path_bytes' = bytes
            /\ IF IsEmpty(bytes)
               THEN Return(make_error_tuple("invalid_path"))
               ELSE /\ pc' = IF target = "windows" THEN "normalize" ELSE "validate"
                    /\ UNCHANGED result
    /\ UNCHANGED <<target, path_term, wpath, entry, os_stat, os_err, calls, heap_log>>

----------------------------------------------------------------------------
(* Windows *)

\* String::from_utf8(path_bytes).is_ok()
IsUtf8(bytes) == ~Has(bytes, XFF)

\* Mutant of LongPath: the UNC branch keeps both leading backslashes.
LongPathUncWhole(path_str) ==
    IF StartsWith(path_str, LongPrefix)
    THEN path_str
    ELSE IF StartsWith(path_str, UncPrefix)
         THEN <<BS, BS, QM, BS, "U", "N", "C">> \o path_str
         ELSE LongPrefix \o path_str

\* Lines 190-197: the long-path form of path_str.
LongPath(path_str) ==
    IF StartsWith(path_str, LongPrefix)
    THEN path_str
    ELSE IF StartsWith(path_str, UncPrefix)
         THEN <<BS, BS, QM, BS, "U", "N", "C">> \o SubSeq(path_str, 2, Len(path_str))
         ELSE LongPrefix \o path_str

\* WideCString::from_str(long_path_str): the set of values it can return, {}
\* standing for Err.  An interior nul is an error; a single trailing nul is an
\* error or is taken as the terminator, depending on the widestring release.
WideCStringFromStr(str) ==
    IF ~Has(str, NUL)
    THEN {{str}}
    ELSE IF Has(SubSeq(str, 1, Len(str) - 1), NUL)
         THEN {{}}
         ELSE {{}, {SubSeq(str, 1, Len(str) - 1)}}

\* Lines 183-203: UTF-8 check, long-path rewrite, conversion to a wide string.
WinNormalize ==
    /\ pc = "normalize"
    /\ target = "windows"
    /\ trace' = Append(trace, "normalize")
    /\ IF ~IsUtf8(path_bytes)
       THEN /\ Return(make_error_tuple("path_conversion_failed"))
            /\ UNCHANGED wpath
       ELSE \E wide \in WideCStringFromStr(LongPath(path_bytes)) :
                IF wide = {}
                THEN /\ Return(make_error_tuple("path_conversion_failed"))
                     /\ UNCHANGED wpath
                ELSE /\ wpath' = CHOOSE w \in wide : TRUE
                     /\ pc' = "validate"
                     /\ UNCHANGED result
    /\ UNCHANGED <<target, path_term, path_bytes, entry, os_stat, os_err, calls, heap_log>>

\* Win32 last-error values the model draws from: ERROR_FILE_NOT_FOUND,
\* ERROR_ACCESS_DENIED.
WinErrors == {2, 5}

\* The text FormatMessageW resolves for a code, trimmed.
WinMessage(errnum) ==
    CASE errnum = 2 -> "The system cannot find the file specified."
      [] errnum = 5 -> "Access is denied."
      [] OTHER -> "Unknown"

\* Lines 140-146: errstr of make_winapi_error_tuple.  fmt_ok is whether
\* FormatMessageW returned a length > 0 and a buffer.
WinapiErrStr(errnum, fmt_ok) ==
    IF fmt_ok THEN WinMessage(errnum) ELSE "Unknown WinAPI error"

\* make_winapi_error_tuple, its return value.
make_winapi_error_tuple(reason, errnum, fmt_ok, map_ok) ==
    IF map_ok
    THEN make_error_tuple3(reason, [errno |-> errnum, errstr |-> WinapiErrStr(errnum, fmt_ok)])
    ELSE RaiseBadArg

\* FormatMessageW with FORMAT_MESSAGE_ALLOCATE_BUFFER (line 123) allocates the
\* buffer with LocalAlloc, which LocalFree releases, as does HeapFree on the
\* process heap.
FormatMessageAlloc == [ev |-> "alloc", by |-> "LocalAlloc"]

\* Lines 107-115, Drop for WinapiMessageBuffer: the events of dropping a guard
\* around a buffer; heap_ok is whether GetProcessHeap returned Ok.
DropGuard(non_null, heap_ok) ==
    IF non_null /\ heap_ok THEN <<[ev |-> "free", by |-> "HeapFree"]>> ELSE <<>>

\* make_winapi_error_tuple, its events on the message buffer, in program
\* order: allocation (line 127), read of the text (line 144), drop of the guard
\* when the function returns, on the early return of `?` as on the normal one.
WinapiHeapLog(fmt_ok, heap_ok) ==
    (IF fmt_ok
     THEN <<FormatMessageAlloc, [ev |-> "read", by |-> "from_raw_parts"]>>
     ELSE <<>>)
    \o DropGuard(fmt_ok, heap_ok)

\* Mutant of AttrIsDir: any valid attribute word passes the directory check.
AttrIsDirAlways(attr) == TRUE

\* (attr & FILE_ATTRIBUTE_DIRECTORY.0) != 0
AttrIsDir(attr) == attr = "dir"

\* Lines 207-214: the directory check.
WinValidate ==
    /\ pc = "validate"
    /\ target = "windows"
    /\ trace' = Append(trace, "validate")
    /\ calls' = Append(calls, [api |-> "GetFileAttributesW", path |-> wpath])
    /\ \E attr \in {"invalid", "file", "dir"} :
          IF attr = "invalid"
          THEN \E err \in WinErrors, fmt_ok \in BOOLEAN, heap_ok \in BOOLEAN, map_ok \in MapPutOutcomes :
                  /\ entry' = "error"
                  /\ os_err' = {err}
                  /\ heap_log' = heap_log \o WinapiHeapLog(fmt_ok, heap_ok)
                  /\ Return(make_winapi_error_tuple("winapi_failed", err, fmt_ok, map_ok))
          ELSE /\ entry' = attr
               /\ UNCHANGED <<heap_log, os_err>>
               /\ IF ~AttrIsDir(attr)
                  THEN Return(make_error_tuple("not_directory"))
                  ELSE /\ pc' = "stat"
                       /\ UNCHANGED result
    /\ UNCHANGED <<target, path_term, path_bytes, wpath, os_stat>>

\* Mutant of SaturatingSub: a wrapping subtraction.
WrappingSub(a, b) == (a - b + Word) % Word

\* u64::saturating_sub
SaturatingSub(a, b) == IF a >= b THEN a - b ELSE 0

\* Lines 216-244: GetDiskFreeSpaceExW and the success map.
WinStat ==
    /\ pc = "stat"
    /\ target = "windows"
    /\ trace' = Append(trace, "stat")
    /\ calls' = Append(calls, [api |-> "GetDiskFreeSpaceExW", path |-> wpath])
    /\ \/ \E err \in WinErrors, fmt_ok \in BOOLEAN, heap_ok \in BOOLEAN, map_ok \in MapPutOutcomes :
             /\ os_err' = {err}
             /\ heap_log' = heap_log \o WinapiHeapLog(fmt_ok, heap_ok)
             /\ Return(make_winapi_error_tuple("winapi_failed", err, fmt_ok, map_ok))
             /\ UNCHANGED os_stat
       \/ \E avail \in U64, total \in U64, free \in U64, map_ok \in MapPutOutcomes :
             /\ os_stat' = {[blocks |-> total, bfree |-> free, bavail |-> avail, unit |-> 1]}
             /\ Return(make_ok_tuple(avail, free, total, SaturatingSub(total, free), map_ok))
             /\ UNCHANGED <<heap_log, os_err>>
    /\ UNCHANGED <<target, path_term, path_bytes, wpath, entry>>

----------------------------------------------------------------------------
(* POSIX *)

\* errno values the model draws from: ENOENT, EIO, EACCES.
ENOENT == 2
EIO == 5
EACCES == 13

\* fs::metadata(path): what the file system holds at the path decides the
\* outcome; a path with a nul byte is refused before any syscall.
Metadata(path, fs_entry) ==
    IF Has(path, NUL) THEN [ok |-> FALSE, is_dir |-> FALSE, err |-> NulError]
    ELSE CASE fs_entry = "dir" -> [ok |-> TRUE, is_dir |-> TRUE, err |-> NulError]
           [] fs_entry = "file" -> [ok |-> TRUE, is_dir |-> FALSE, err |-> NulError]
           [] fs_entry = "missing" -> [ok |-> FALSE, is_dir |-> FALSE, err |-> OsError(ENOENT)]
           [] OTHER -> [ok |-> FALSE, is_dir |-> FALSE, err |-> OsError(EACCES)]

FsEntries == {"dir", "file", "missing", "denied"}

\* Mutant of IsDir: any entry whose metadata was read passes the directory check.
IsDirAlways(metadata) == TRUE

\* metadata.is_dir()
IsDir(metadata) == metadata.is_dir

\* Lines 250-260: the directory check.
UnixValidate ==
    /\ pc = "validate"
    /\ target # "windows"
    /\ trace' = Append(trace, "validate")
    /\ calls' = Append(calls, [api |-> "metadata", path |-> path_bytes])
    /\ \E fs_entry \in FsEntries, map_ok \in MapPutOutcomes :
          LET metadata == Metadata(path_bytes, fs_entry) IN
          IF ~metadata.ok
          THEN /\ entry' = IF Has(path_bytes, NUL) THEN "error" ELSE fs_entry
               /\ os_err' = metadata.err.code
               /\ Return(make_errno_error_tuple("not_directory", metadata.err, map_ok))
          ELSE /\ entry' = fs_entry
               /\ UNCHANGED os_err
               /\ IF ~IsDir(metadata)
                  THEN Return(make_error_tuple("not_directory"))
                  ELSE /\ pc' = "stat"
                       /\ UNCHANGED result
    /\ UNCHANGED <<target, path_term, path_bytes, wpath, os_stat, heap_log>>

\* a * b on u64: whether it overflows, and the wrapped product.
Overflows(a, b) == a * b > MaxU64
WrappingMul(a, b) == (a * b) % Word

\* Lines 271-284 (and 296-309): scale the counts by the unit and build the
\* success tuple.  overflow_checks is the build's overflow-checks setting: with
\* it an overflowing `*` panics, without it the product wraps.
ScaleAndBuild(buf, overflow_checks, map_ok) ==
    IF overflow_checks /\ (\/ Overflows(buf.bavail, buf.unit)
                           \/ Overflows(buf.bfree, buf.unit)
                           \/ Overflows(buf.blocks, buf.unit))
    THEN Panicked
    ELSE LET avail == WrappingMul(buf.bavail, buf.unit)
             free == WrappingMul(buf.bfree, buf.unit)
             total == WrappingMul(buf.blocks, buf.unit)
             used == SaturatingSub(total, free)
         IN make_ok_tuple(avail, free, total, used, map_ok)

\* What statfs / statvfs can report: counts and the scaling unit.
StatBufs == [blocks : U64, bfree : U64, bavail : U64, unit : U64]

\* Lines 264-284: statfs, scaled by block_size().
LinuxStat ==
    /\ pc = "stat"
    /\ target = "linux"
    /\ trace' = Append(trace, "stat")
    /\ calls' = Append(calls, [api |-> "statfs", path |-> path_bytes])
    /\ \/ \E err \in {EIO, EACCES}, map_ok \in MapPutOutcomes :
             /\ os_err' = {err}
             /\ Return(make_errno_error_tuple("statfs_failed", OsError(err), map_ok))
             /\ UNCHANGED os_stat
       \/ \E statfs_buf \in StatBufs, overflow_checks \in BOOLEAN, map_ok \in MapPutOutcomes :
             /\ os_stat' = {statfs_buf}
             /\ Return(ScaleAndBuild(statfs_buf, overflow_checks, map_ok))
             /\ UNCHANGED os_err
    /\ UNCHANGED <<target, path_term, path_bytes, wpath, entry, heap_log>>

\* Lines 289-309: statvfs, scaled by fragment_size().
StatvfsStat ==
    /\ pc = "stat"
    /\ target = "unix"
    /\ trace' = Append(trace, "stat")
    /\ calls' = Append(calls, [api |-> "statvfs", path |-> path_bytes])
    /\ \/ \E err \in {EIO, EACCES}, map_ok \in MapPutOutcomes :
             /\ os_err' = {err}
             /\ Return(make_errno_error_tuple("statvfs_failed", OsError(err), map_ok))
             /\ UNCHANGED os_stat
       \/ \E statvfs_buf \in StatBufs, overflow_checks \in BOOLEAN, map_ok \in MapPutOutcomes :
             /\ os_stat' = {statvfs_buf}
             /\ Return(ScaleAndBuild(statvfs_buf, overflow_checks, map_ok))
             /\ UNCHANGED os_err
    /\ UNCHANGED <<target, path_term, path_bytes, wpath, entry, heap_log>>

----------------------------------------------------------------------------

Next ==
    \/ Decode
    \/ WinNormalize
    \/ WinValidate
    \/ WinStat
    \/ UnixValidate
    \/ LinuxStat
    \/ StatvfsStat

Spec == Init /\ [][Next]_vars

----------------------------------------------------------------------------
(* Claims *)

InvalidPathResult ==
    [tag |-> "error", reason |-> "invalid_path", detail |-> {}, map |-> {}]

NotDirectoryResult ==
    [tag |-> "error", reason |-> "not_directory", detail |-> {}, map |-> {}]

InputEmptyOrUndecodable ==
    path_term.kind = "other" \/ path_term.bytes = <<>>

\* C1: an input that is empty or that neither decoder accepts ends the call
\* with {error, invalid_path}, no detail, on every target, and before any path
\* rewriting, directory check or statistics call.
C1_EmptyOrUndecodableIsInvalidPath ==
    (InputEmptyOrUndecodable /\ pc # "decode") =>
        /\ pc = "done"
        /\ result = InvalidPathResult
        /\ trace = <<"decode">>
        /\ calls = <<>>
        /\ wpath = <<>>

C1_Witness ==
    /\ pc = "done"
    /\ target = "windows"
    /\ path_term = [kind |-> "binary", bytes |-> <<>>]
    /\ result = InvalidPathResult

StatApis == {"statfs", "statvfs", "GetDiskFreeSpaceExW"}
CheckApis == {"metadata", "GetFileAttributesW"}

CallsTo(apis) == {i \in DOMAIN calls : calls[i].api \in apis}

\* C2: a path naming an existing entry that is not a directory ends the call
\* with {error, not_directory}, no detail, never a success, and the statistics
\* syscall is not made, on POSIX and on Windows.
C2_FileIsNotDirectory ==
    entry = "file" =>
        /\ pc = "done"
        /\ result = NotDirectoryResult
        /\ CallsTo(StatApis) = {}

C2_Witness ==
    /\ pc = "done"
    /\ target = "windows"
    /\ entry = "file"
    /\ ~IsEmpty(path_bytes)
    /\ result = NotDirectoryResult

ValidatorQueryFailed == entry \in {"missing", "denied", "error"}

TheDetail == CHOOSE d \in result.detail : TRUE

TheMap == CHOOSE m \in result.map : TRUE

\* C4: in every success result, on every target, used is total minus free
\* floored at zero: used + free = total when free <= total, used = 0 when
\* free > total, and used is a u64 value.
C4_UsedIsSaturatingDifference ==
    result.tag = "ok" =>
        /\ result.map # {}
        /\ TheMap.used \in U64
        /\ TheMap.free <= TheMap.total => TheMap.used + TheMap.free = TheMap.total
        /\ TheMap.free > TheMap.total => TheMap.used = 0

C4_Witness ==
    /\ pc = "done"
    /\ target = "windows"
    /\ result.tag = "ok"
    /\ TheMap.free > TheMap.total
    /\ TheMap.used = 0

\* The string a NUL-terminated wide string holds for the OS: str up to its
\* first nul.
UpToNul(str) ==
    IF Has(str, NUL)
    THEN SubSeq(str, 1, (CHOOSE i \in 1..Len(str) :
                            str[i] = NUL /\ \A j \in 1..(i - 1) : str[j] # NUL) - 1)
    ELSE str

WinCalls == CallsTo({"GetFileAttributesW", "GetDiskFreeSpaceExW"})

\* C5: on Windows the path handed to GetFileAttributesW and to
\* GetDiskFreeSpaceExW is the long-path form of the input: the input itself if
\* it starts with \\?\, \\?\UNC followed by the input without its first
\* backslash if it starts with \\, and \\?\ followed by the input otherwise; it
\* begins with \\?\ and is the same for both calls.
C5_LongPathForm ==
    \A i \in WinCalls :
        /\ StartsWith(calls[i].path, <<BS, BS, QM, BS>>)
        /\ calls[i].path = calls[1].path
        /\ StartsWith(path_bytes, <<BS, BS, QM, BS>>) =>
              calls[i].path = UpToNul(path_bytes)
        /\ (~StartsWith(path_bytes, <<BS, BS, QM, BS>>) /\ StartsWith(path_bytes, <<BS, BS>>)) =>
              calls[i].path = UpToNul(<<BS, BS, QM, BS, "U", "N", "C">> \o Tail(path_bytes))
        /\ ~StartsWith(path_bytes, <<BS, BS>>) =>
              calls[i].path = UpToNul(<<BS, BS, QM, BS>> \o path_bytes)

C5_Witness ==
    /\ pc = "done"
    /\ target = "windows"
    /\ path_bytes = <<BS, BS, "C", BS>>
    /\ Len(calls) = 2
    /\ calls[1].path = <<BS, BS, QM, BS, "U", "N", "C", BS, "C", BS>>
    /\ calls[2].api = "GetDiskFreeSpaceExW"

BareDriveRoot == <<BS, BS, QM, BS, "C", ":">>

\* C6: on Windows, when the long-path form is the bare drive root \\?\C:
\* (input \\?\C: or input C:), the path passed to the OS calls is \\?\C:\.
C6_BareDriveRootGetsSeparator ==
    \A i \in WinCalls :
        path_bytes \in {<<"C", ":">>, BareDriveRoot} =>
            calls[i].path = BareDriveRoot \o <<BS>>

OkShape ==
    /\ result.tag = "ok"
    /\ result.map # {}
    /\ DOMAIN TheMap = {"available", "free", "total", "used"}
    /\ \A k \in DOMAIN TheMap : TheMap[k] \in U64

ErrorReasons ==
    {"invalid_path", "path_conversion_failed", "not_directory"}
    \cup (CASE target = "linux" -> {"statfs_failed"}
            [] target = "unix" -> {"statvfs_failed"}
            [] OTHER -> {"winapi_failed"})

ErrorShape ==
    /\ result.tag = "error"
    /\ result.reason \in ErrorReasons

\* C7: every invocation ends either in a success carrying available, free,
\* total and used, or in a structured error whose discriminant is invalid_path,
\* path_conversion_failed, not_directory or the target's statistics failure;
\* no step's failure ends the call any other way.
C7_OkOrStructuredError ==
    pc = "done" => (OkShape \/ ErrorShape)

StageOrder ==
    IF target = "windows"
    THEN <<"decode", "normalize", "validate", "stat">>
    ELSE <<"decode", "validate", "stat">>

ReasonsOf(stage) ==
    CASE stage = "decode" -> {"invalid_path"}
      [] stage = "normalize" -> {"path_conversion_failed"}
      [] stage = "validate" -> IF target = "windows"
                               THEN {"not_directory", "winapi_failed"}
                               ELSE {"not_directory"}
      [] OTHER -> ErrorReasons \ {"invalid_path", "path_conversion_failed", "not_directory"}

\* C8: the stages run in the fixed order, each at most once; the statistics
\* syscall is made only after the path was found non-empty, converted and
\* confirmed a directory by the one directory check before it; a stage that
\* fails ends the call with its own error and no later stage runs.
C8_StagesInOrder ==
    /\ Len(trace) <= Len(StageOrder)
    /\ trace = SubSeq(StageOrder, 1, Len(trace))
    /\ Cardinality(CallsTo(StatApis)) <= 1
    /\ Cardinality(CallsTo(CheckApis)) <= 1
    /\ \A i \in CallsTo(StatApis) :
          /\ ~IsEmpty(path_bytes)
          /\ i = 2 /\ calls[1].api \in CheckApis /\ calls[1].path = calls[2].path
          /\ entry = "dir"
          /\ target = "windows" => wpath # <<>>
    /\ result.tag = "error" =>
          /\ pc = "done"
          /\ result.reason \in ReasonsOf(trace[Len(trace)])
    /\ (pc = "done") = (result # NoResult)

C8_Witness ==
    /\ pc = "done"
    /\ target = "unix"
    /\ trace = <<"decode", "validate", "stat">>
    /\ result.tag = "error"
    /\ result.reason = "statvfs_failed"

TheStat == CHOOSE b \in os_stat : TRUE

\* C9: on POSIX every call that got statistics ends in a success whose
\* available, free and total are the exact products of the reported counts and
\* the reported unit: the multiplication neither wraps nor traps.
C9_ExactProducts ==
    (pc = "done" /\ target # "windows" /\ os_stat # {}) =>
        /\ result.tag = "ok"
        /\ TheMap.available = TheStat.bavail * TheStat.unit
        /\ TheMap.free = TheStat.bfree * TheStat.unit
        /\ TheMap.total = TheStat.blocks * TheStat.unit

Count(ev) == Cardinality({i \in DOMAIN heap_log : heap_log[i].ev = ev})

\* The deallocation primitives that match an allocation primitive.
Releases(alloc_by) ==
    IF alloc_by = "LocalAlloc" THEN {"LocalFree", "HeapFree"} ELSE {}

\* C10: on Windows every buffer FormatMessageW allocated is released exactly
\* once, through a primitive matching its allocation, before
\* make_winapi_error_tuple returns, after its text was read, on every exit
\* path; nothing is freed that was not allocated and nothing is read after the
\* release.
C10_BufferReleasedOnce ==
    pc = "done" =>
        /\ Count("free") = Count("alloc")
        /\ \A i \in DOMAIN heap_log :
              heap_log[i].ev = "free" =>
                  /\ \E j \in 1..(i - 1) :
                        /\ heap_log[j].ev = "alloc"
                        /\ heap_log[i].by \in Releases(heap_log[j].by)
                  /\ \A j \in (i + 1)..Len(heap_log) : heap_log[j].ev # "read"

====
